---- MODULE Spec2Model ----
(***************************************************************************)
(* PumpController of vattenpump (src/app.py, with the identical control    *)
(* flow in src/main.py and src/pump_control.py): a foreground caller and   *)
(* the daemon threads spawned by start_timer run the controller's methods  *)
(* without any lock.  Every read or write of a controller attribute or of  *)
(* a backend output is one atomic step of the thread that performs it; a   *)
(* method is a sequence of such steps, addressed by a program counter.     *)
(***************************************************************************)
EXTENDS Integers, Sequences, FiniteSets, TLC

\* ---------------------------------------------------------------- bounds
\* Threads that start_timer may spawn during one run: of the whole
\* application (Spec, SpecCore) and of the timer commands alone (SpecRace).
MaxTimers == 1
MaxRaceTimers == 2
\* Largest `seconds` argument given to start_timer: with every command
\* interleaved, and in the runs of one timer (SpecGui, SpecCancel).
MaxSeconds == 1
MaxSoloSeconds == 3

Max(a, b) == IF a >= b THEN a ELSE b
Min(a, b) == IF a <= b THEN a ELSE b

\* Thread 0 is the foreground caller; the others are timer threads.
Foreground == 0
Workers == 1..Max(MaxTimers, MaxRaceTimers)
Threads == {Foreground} \cup Workers

\* Speed arguments: below, inside and above the range [0,100].
Speeds == {-20, 40, 130}
CoreSpeeds == {40, 130}
Seconds == 1..MaxSeconds
SoloSeconds == 1..MaxSoloSeconds
\* update_callback is None or the progress callback of the caller.
None == "None"
\* The values a method returns.
True == "True"
False == "False"
Callbacks == {None, "cb"}

VARIABLES
  simulate,          \* self.simulate
  is_running,        \* self.is_running
  current_speed,     \* self.current_speed
  timer_running,     \* self.timer_running
  timer_stop_flag,   \* self.timer_stop_flag
  timer_remaining,   \* self.timer_remaining
  timer_speed,       \* self.timer_speed
  update_callback,   \* self.update_callback
  en,                \* R_EN / L_EN output level (TRUE = HIGH)
  duty,              \* duty cycle of pwm_rpwm
  pc,                \* pc[t]: the statement thread t executes next
  stack,             \* stack[t]: return addresses of the calls in progress
  speed,             \* speed[t]: local `speed` of the method in progress
  seconds,           \* seconds[t]: local `seconds`
  callback,          \* callback[t]: local `callback` of start_timer
  remaining,         \* remaining[t]: loop variable of _timer_worker
  spawned,           \* number of threads started so far
  cmd,               \* the foreground's current (or last) command
  result,            \* return value of the foreground's last command
  last_start,        \* <<speed argument>> of a start_pump that just succeeded
  report,            \* the dictionary get_status builds
  cblog,             \* values the progress callback was invoked with
  moisture,          \* sensors.moisture: the stored raw readings
  query,             \* arguments of the last get_moisture_percent call
  answer             \* what that call returned or raised

ctrl == <<is_running, current_speed, timer_running, timer_stop_flag,
          timer_remaining, timer_speed, update_callback>>
hw == <<en, duty>>
locals == <<speed, seconds, callback, remaining>>
fgvars == <<cmd, result, last_start, report>>
sensors == <<moisture, query, answer>>
pump == <<simulate, ctrl, hw, pc, stack, locals, spawned, fgvars, cblog>>
vars == <<pump, sensors>>

\* ------------------------------------------------------------- helpers
\* speed = max(0, min(100, speed))
Clamp(s) == Max(0, Min(100, s))

NoReport == [pump_running |-> None, pump_speed |-> None, timer_running |-> None,
             timer_remaining |-> None, timer_speed |-> None]

NoCmd == [op |-> None, speed |-> 0, seconds |-> 0]

\* A call returns a value or raises an exception.
Returned(v) == [raises |-> None, returns |-> v]
Raised(e) == [raises |-> e, returns |-> 0]
NoQuery == [asked |-> FALSE, sensor_index |-> 0, dry |-> 0, wet |-> 0]

\* The locals of thread t's frame die with the frame.
Drop(f, t, v) == [f EXCEPT ![t] = v]

\* Return from the method thread t is in, with value v.  A call made by the
\* foreground with nothing below it on the stack is a command: its value is
\* the command's result (cleanup returns nothing).  The locals of the frame
\* are gone; of the methods that are called by other methods only
\* start_pump has one, `speed`.
Return(t, v) ==
  IF stack[t] = <<>>
    THEN /\ pc' = [pc EXCEPT ![t] = "idle"]
         /\ stack' = stack
         /\ result' = IF cmd.op = "cleanup" THEN None ELSE v
         /\ last_start' = IF cmd.op = "start_pump" /\ v = True
                            THEN <<cmd.speed>> ELSE last_start
         /\ cmd' = cmd
         /\ speed' = Drop(speed, t, 0)
         /\ seconds' = Drop(seconds, t, 0)
         /\ callback' = Drop(callback, t, None)
    ELSE /\ pc' = [pc EXCEPT ![t] = Head(stack[t])]
         /\ stack' = [stack EXCEPT ![t] = Tail(stack[t])]
         /\ speed' = Drop(speed, t, 0)
         /\ UNCHANGED <<result, last_start, cmd, seconds, callback>>

Goto(t, label) ==
  /\ pc' = [pc EXCEPT ![t] = label]
  /\ UNCHANGED <<stack, result, last_start, cmd>>

\* Call a method from statement level: continue at `label`, return to `back`.
Call(t, label, back) ==
  /\ pc' = [pc EXCEPT ![t] = label]
  /\ stack' = [stack EXCEPT ![t] = <<back>> \o stack[t]]
  /\ UNCHANGED <<result, last_start, cmd>>

InitPump ==
  /\ simulate \in BOOLEAN
  /\ is_running = FALSE
  /\ current_speed = 0
  /\ timer_running = FALSE
  /\ timer_stop_flag = FALSE
  /\ timer_remaining = 0
  /\ timer_speed = 0
  /\ update_callback = None
  /\ en = FALSE
  /\ duty = 0
  /\ pc = [t \in Threads |-> IF t = Foreground THEN "idle" ELSE "unborn"]
  /\ stack = [t \in Threads |-> <<>>]
  /\ speed = [t \in Threads |-> 0]
  /\ seconds = [t \in Threads |-> 0]
  /\ callback = [t \in Threads |-> None]
  /\ remaining = [t \in Threads |-> 0]
  /\ spawned = 0
  /\ cmd = NoCmd
  /\ result = None
  /\ last_start = <<>>
  /\ report = NoReport
  /\ cblog = <<>>

\* SensorReader.__init__: self.moisture = [0, 0, 0, 0]
Init ==
  /\ InitPump
  /\ moisture = <<0, 0, 0, 0>>
  /\ query = NoQuery
  /\ answer = Returned(0)

\* ------------------------------------------------------------ start_pump
StartPumpLabels == {"sp_chk", "sp_speed", "sp_en", "sp_duty", "sp_run"}

\* if self.is_running: return False
StartPumpNeverRefuses == FALSE
StartPumpRefuses == is_running

start_pump(t) ==
  /\ pc[t] \in StartPumpLabels
  /\ UNCHANGED <<simulate, sensors, timer_running, timer_stop_flag, timer_remaining,
                 timer_speed, update_callback, remaining, spawned, report,
                 cblog>>
  /\ CASE pc[t] = "sp_chk" ->
            \* if self.is_running: return False
            /\ IF StartPumpRefuses
                 THEN Return(t, False)
                 ELSE Goto(t, "sp_speed") /\ UNCHANGED <<speed, seconds, callback>>
            /\ UNCHANGED <<is_running, current_speed, hw>>
       [] pc[t] = "sp_speed" ->
            \* speed = max(0, min(100, speed)); self.current_speed = speed
            /\ speed' = [speed EXCEPT ![t] = Clamp(speed[t])]
            /\ current_speed' = Clamp(speed[t])
            /\ Goto(t, IF simulate THEN "sp_run" ELSE "sp_en")
            /\ UNCHANGED <<is_running, hw, seconds, callback>>
       [] pc[t] = "sp_en" ->
            \* GPIO.output(R_EN, HIGH); GPIO.output(L_EN, HIGH)
            /\ en' = TRUE
            /\ Goto(t, "sp_duty")
            /\ UNCHANGED <<is_running, current_speed, duty, speed, seconds, callback>>
       [] pc[t] = "sp_duty" ->
            \* pwm_rpwm.ChangeDutyCycle(speed); pwm_lpwm.ChangeDutyCycle(0)
            /\ duty' = speed[t]
            /\ Goto(t, "sp_run")
            /\ UNCHANGED <<is_running, current_speed, en, speed, seconds, callback>>
       [] pc[t] = "sp_run" ->
            \* self.is_running = True; return True
            /\ is_running' = TRUE
            /\ Return(t, True)
            /\ UNCHANGED <<current_speed, hw>>

\* ------------------------------------------------------------- stop_pump
StopPumpLabels == {"st_chk", "st_duty", "st_en", "st_run", "st_speed"}

\* if not self.is_running: return False
StopPumpNeverRefuses == FALSE
StopPumpAlwaysRefuses == TRUE
StopPumpRefuses == ~is_running

stop_pump(t) ==
  /\ pc[t] \in StopPumpLabels
  /\ UNCHANGED <<simulate, sensors, timer_running, timer_stop_flag, timer_remaining,
                 timer_speed, update_callback, remaining, spawned, report,
                 cblog>>
  /\ CASE pc[t] = "st_chk" ->
            \* if not self.is_running: return False
            /\ IF StopPumpRefuses
                 THEN Return(t, False)
                 ELSE /\ Goto(t, IF simulate THEN "st_run" ELSE "st_duty")
                      /\ UNCHANGED <<speed, seconds, callback>>
            /\ UNCHANGED <<is_running, current_speed, hw>>
       [] pc[t] = "st_duty" ->
            \* pwm_rpwm.ChangeDutyCycle(0); pwm_lpwm.ChangeDutyCycle(0)
            /\ duty' = 0
            /\ Goto(t, "st_en")
            /\ UNCHANGED <<is_running, current_speed, en, speed, seconds, callback>>
       [] pc[t] = "st_en" ->
            \* GPIO.output(R_EN, LOW); GPIO.output(L_EN, LOW)
            /\ en' = FALSE
            /\ Goto(t, "st_run")
            /\ UNCHANGED <<is_running, current_speed, duty, speed, seconds, callback>>
       [] pc[t] = "st_run" ->
            \* self.is_running = False
            /\ is_running' = FALSE
            /\ Goto(t, "st_speed")
            /\ UNCHANGED <<current_speed, hw, speed, seconds, callback>>
       [] pc[t] = "st_speed" ->
            \* self.current_speed = 0; return True
            /\ current_speed' = 0
            /\ Return(t, True)
            /\ UNCHANGED <<is_running, hw>>

\* ----------------------------------------------------------- start_timer
StartTimerLabels == {"tm_chk", "tm_run", "tm_flag", "tm_rem", "tm_spd",
                     "tm_cb", "tm_spawn"}

\* if self.timer_running: return False
StartTimerNeverRefuses == FALSE
StartTimerRefuses == timer_running

\* `limit` bounds the threads a run may start: the run is not followed
\* beyond the start of one more.
start_timer(t, limit) ==
  /\ pc[t] \in StartTimerLabels
  /\ UNCHANGED <<simulate, sensors, is_running, current_speed, hw, report, cblog>>
  /\ CASE pc[t] = "tm_chk" ->
            \* if self.timer_running: return False
            /\ IF StartTimerRefuses
                 THEN Return(t, False)
                 ELSE Goto(t, "tm_run") /\ UNCHANGED <<speed, seconds, callback>>
            /\ UNCHANGED <<timer_running, timer_stop_flag, timer_remaining,
                           timer_speed, update_callback, remaining, spawned>>
       [] pc[t] = "tm_run" ->
            \* self.timer_running = True
            /\ timer_running' = TRUE
            /\ Goto(t, "tm_flag")
            /\ UNCHANGED <<timer_stop_flag, timer_remaining, timer_speed,
                           update_callback, locals, spawned>>
       [] pc[t] = "tm_flag" ->
            \* self.timer_stop_flag = False
            /\ timer_stop_flag' = FALSE
            /\ Goto(t, "tm_rem")
            /\ UNCHANGED <<timer_running, timer_remaining, timer_speed,
                           update_callback, locals, spawned>>
       [] pc[t] = "tm_rem" ->
            \* self.timer_remaining = seconds
            /\ timer_remaining' = seconds[t]
            /\ Goto(t, "tm_spd")
            /\ UNCHANGED <<timer_running, timer_stop_flag, timer_speed,
                           update_callback, locals, spawned>>
       [] pc[t] = "tm_spd" ->
            \* self.timer_speed = speed
            /\ timer_speed' = speed[t]
            /\ Goto(t, "tm_cb")
            /\ UNCHANGED <<timer_running, timer_stop_flag, timer_remaining,
                           update_callback, locals, spawned>>
       [] pc[t] = "tm_cb" ->
            \* self.update_callback = callback
            /\ update_callback' = callback[t]
            /\ Goto(t, "tm_spawn")
            /\ UNCHANGED <<timer_running, timer_stop_flag, timer_remaining,
                           timer_speed, locals, spawned>>
       [] pc[t] = "tm_spawn" ->
            \* threading.Thread(target=self._timer_worker,
            \*                  args=(seconds, speed), daemon=True).start()
            \* return True
            \* The new thread begins _timer_worker(seconds, speed) with
            \* self.start_pump(speed) and then enters
            \* for remaining in range(seconds, -1, -1).
            /\ spawned < limit
            /\ spawned' = spawned + 1
            /\ spawned' = spawned + 1
            /\ pc' = [pc EXCEPT ![t] = "idle", ![spawned + 1] = "sp_chk"]
            /\ stack' = [stack EXCEPT ![spawned + 1] = <<"wk_for">>]
            /\ speed' = [speed EXCEPT ![t] = 0, ![spawned + 1] = speed[t]]
            /\ remaining' = [remaining EXCEPT ![spawned + 1] = seconds[t]]
            /\ seconds' = [seconds EXCEPT ![t] = 0]
            /\ callback' = [callback EXCEPT ![t] = None]
            /\ result' = True
            /\ UNCHANGED <<cmd, last_start, timer_running, timer_stop_flag,
                           timer_remaining, timer_speed, update_callback>>

\* ------------------------------------------------------------ stop_timer
StopTimerLabels == {"ts_chk", "ts_flag", "ts_run"}

\* if self.timer_running: ... (else) return False
StopTimerNeverRefuses == FALSE
StopTimerRefuses == ~timer_running

stop_timer(t) ==
  /\ pc[t] \in StopTimerLabels
  /\ UNCHANGED <<simulate, sensors, is_running, current_speed, hw, timer_remaining,
                 timer_speed, update_callback, remaining, spawned, report,
                 cblog>>
  /\ CASE pc[t] = "ts_chk" ->
            \* if self.timer_running: ... ; return False
            /\ IF StopTimerRefuses
                 THEN Return(t, False)
                 ELSE Goto(t, "ts_flag") /\ UNCHANGED <<speed, seconds, callback>>
            /\ UNCHANGED <<timer_running, timer_stop_flag>>
       [] pc[t] = "ts_flag" ->
            \* self.timer_stop_flag = True; self.stop_pump()
            /\ timer_stop_flag' = TRUE
            /\ Call(t, "st_chk", "ts_run")
            /\ UNCHANGED <<timer_running, speed, seconds, callback>>
       [] pc[t] = "ts_run" ->
            \* self.timer_running = False; return True
            /\ timer_running' = FALSE
            /\ Return(t, True)
            /\ UNCHANGED timer_stop_flag

\* --------------------------------------------------------------- cleanup
\* cleanup begins with self.stop_timer() and returns to "cl_pump".
cleanup(t) ==
  /\ pc[t] = "cl_pump"
  \* self.stop_pump(); its return ends cleanup
  /\ Goto(t, "st_chk")
  /\ UNCHANGED <<simulate, sensors, ctrl, hw, locals, spawned, report, cblog>>

\* ------------------------------------------------------------ get_status
StatusLabels == {"gs_running", "gs_speed", "gs_trun", "gs_trem", "gs_tspd"}

get_status(t) ==
  /\ pc[t] \in StatusLabels
  /\ UNCHANGED <<simulate, sensors, ctrl, hw, remaining, spawned, cblog>>
  /\ CASE pc[t] = "gs_running" ->
            \* 'pump_running': pump.is_running
            /\ report' = [report EXCEPT !.pump_running = is_running]
            /\ Goto(t, "gs_speed")
            /\ UNCHANGED <<speed, seconds, callback>>
       [] pc[t] = "gs_speed" ->
            \* 'pump_speed': pump.current_speed
            /\ report' = [report EXCEPT !.pump_speed = current_speed]
            /\ Goto(t, "gs_trun")
            /\ UNCHANGED <<speed, seconds, callback>>
       [] pc[t] = "gs_trun" ->
            \* 'timer_running': pump.timer_running
            /\ report' = [report EXCEPT !.timer_running = timer_running]
            /\ Goto(t, "gs_trem")
            /\ UNCHANGED <<speed, seconds, callback>>
       [] pc[t] = "gs_trem" ->
            \* 'timer_remaining': pump.timer_remaining
            /\ report' = [report EXCEPT !.timer_remaining = timer_remaining]
            /\ Goto(t, "gs_tspd")
            /\ UNCHANGED <<speed, seconds, callback>>
       [] pc[t] = "gs_tspd" ->
            \* 'timer_speed': pump.timer_speed; return jsonify(...)
            /\ report' = [report EXCEPT !.timer_speed = timer_speed]
            /\ Return(t, True)

\* --------------------------------------------------------- _timer_worker
WorkerLabels == {"wk_for", "wk_rem", "wk_cbchk", "wk_cb", "wk_sleep",
                 "wk_run", "wk_rem0", "wk_cbchk0", "wk_cb0"}

\* A thread is alive from its start until _timer_worker returns or raises.
Alive(w) == pc[w] \notin {"unborn", "done", "crashed"}

\* The thread ends: its frame is gone.
Exit(w, how) ==
  /\ pc' = [pc EXCEPT ![w] = how]
  /\ remaining' = Drop(remaining, w, 0)
  /\ UNCHANGED stack

\* for remaining in range(seconds, -1, -1): the values seconds, ..., 1, 0.
RangeStop == -1

\* if self.timer_stop_flag: break
BreakNeverRequested == FALSE
BreakWhenPumpStopped == ~is_running
BreakRequested == timer_stop_flag

timer_worker(w) ==
  /\ pc[w] \in WorkerLabels
  /\ UNCHANGED <<simulate, sensors, is_running, current_speed, hw, timer_stop_flag,
                 timer_speed, update_callback, speed, seconds, callback,
                 spawned, fgvars>>
  /\ CASE pc[w] = "wk_for" ->
            \* for remaining in range(seconds, -1, -1):
            \*     if self.timer_stop_flag: break
            \* and after the loop: self.stop_pump()
            /\ IF remaining[w] <= RangeStop \/ BreakRequested
                 THEN /\ pc' = [pc EXCEPT ![w] = "st_chk"]
                      /\ stack' = [stack EXCEPT ![w] = <<"wk_run">>]
                 ELSE /\ pc' = [pc EXCEPT ![w] = "wk_rem"]
                      /\ UNCHANGED stack
            /\ UNCHANGED <<timer_running, timer_remaining, remaining, cblog>>
       [] pc[w] = "wk_rem" ->
            \* self.timer_remaining = remaining
            /\ timer_remaining' = remaining[w]
            /\ pc' = [pc EXCEPT ![w] = "wk_cbchk"]
            /\ UNCHANGED <<stack, timer_running, remaining, cblog>>
       [] pc[w] = "wk_cbchk" ->
            \* if self.update_callback:
            /\ pc' = [pc EXCEPT ![w] =
                        IF update_callback # None THEN "wk_cb" ELSE "wk_sleep"]
            /\ UNCHANGED <<stack, timer_running, timer_remaining, remaining, cblog>>
       [] pc[w] = "wk_cb" ->
            \* self.update_callback(remaining); calling None raises TypeError
            /\ IF update_callback # None
                 THEN /\ cblog' = Append(cblog, remaining[w])
                      /\ pc' = [pc EXCEPT ![w] = "wk_sleep"]
                      /\ UNCHANGED <<stack, remaining>>
                 ELSE /\ Exit(w, "crashed")
                      /\ UNCHANGED cblog
            /\ UNCHANGED <<timer_running, timer_remaining>>
       [] pc[w] = "wk_sleep" ->
            \* time.sleep(1)
            /\ remaining' = [remaining EXCEPT ![w] = remaining[w] - 1]
            /\ pc' = [pc EXCEPT ![w] = "wk_for"]
            /\ UNCHANGED <<stack, timer_running, timer_remaining, cblog>>
       [] pc[w] = "wk_run" ->
            \* self.timer_running = False
            /\ timer_running' = FALSE
            /\ pc' = [pc EXCEPT ![w] = "wk_rem0"]
            /\ UNCHANGED <<stack, timer_remaining, remaining, cblog>>
       [] pc[w] = "wk_rem0" ->
            \* self.timer_remaining = 0
            /\ timer_remaining' = 0
            /\ pc' = [pc EXCEPT ![w] = "wk_cbchk0"]
            /\ UNCHANGED <<stack, timer_running, remaining, cblog>>
       [] pc[w] = "wk_cbchk0" ->
            \* if self.update_callback:
            /\ IF update_callback # None
                 THEN /\ pc' = [pc EXCEPT ![w] = "wk_cb0"]
                      /\ UNCHANGED <<stack, remaining>>
                 ELSE Exit(w, "done")
            /\ UNCHANGED <<timer_running, timer_remaining, cblog>>
       [] pc[w] = "wk_cb0" ->
            \* self.update_callback(0); calling None raises TypeError
            /\ cblog' = IF update_callback # None THEN Append(cblog, 0) ELSE cblog
            /\ Exit(w, IF update_callback # None THEN "done" ELSE "crashed")
            /\ UNCHANGED <<timer_running, timer_remaining>>

\* ---------------------------------------------------------- SensorReader
\* The raw readings of the 10-bit range the calibration defaults span.
MaxRaw == 1023
Raws == 0..MaxRaw
\* self.moisture = [0, 0, 0, 0]: four channels, Python indices 0..3.
Channels == 1..4
\* Index arguments: the list's own, negative ones, and ones past its ends.
Indices == -5..4
\* (dry, wet): the defaults, another span, and two with dry = wet.
Calibrations == {<<1023, 400>>, <<900, 277>>, <<700, 700>>, <<400, 400>>}
\* What read_moisture has stored: one channel holds any raw value, the
\* others a mid-range one.
Readings ==
  {[c \in Channels |-> IF c = ch THEN r ELSE 512] : r \in Raws, ch \in Channels}

\* list[i]: a negative index counts from the end, anything outside
\* -len..len-1 raises IndexError.
IndexFails(list, i) == i < -Len(list) \/ i >= Len(list)
Item(list, i) == IF i < 0 THEN list[Len(list) + i + 1] ELSE list[i + 1]

\* x / 0 raises ZeroDivisionError.
DivisionByZeroYieldsZero == Returned(0)
DivisionByZero == Raised("ZeroDivisionError")

\* int(a / b * 100): int() drops the fraction, towards zero.  The quotient
\* is a float; for the spans of Calibrations (623 = 7 * 89) a quotient that
\* is not whole lies at least 1/623 from a whole number, so the float
\* truncates as the exact quotient does.
Abs(x) == IF x < 0 THEN -x ELSE x
TruncPercent(a, b) ==
  LET q == (Abs(a) * 100) \div Abs(b)
  IN  IF (a < 0) # (b < 0) THEN -q ELSE q

MoisturePercent(list, sensor_index, dry, wet) ==
  IF IndexFails(list, sensor_index)
    THEN \* raw = self.moisture[sensor_index]
         Raised("IndexError")
    ELSE IF dry - wet = 0
      THEN DivisionByZero
      ELSE \* max(0, min(100, int((dry - raw) / (dry - wet) * 100)))
           Returned(Max(0, Min(100,
             TruncPercent(dry - Item(list, sensor_index), dry - wet))))

get_moisture_percent ==
  /\ \E i \in Indices, c \in Calibrations :
       /\ query' = [asked |-> TRUE, sensor_index |-> i,
                    dry |-> c[1], wet |-> c[2]]
       /\ answer' = MoisturePercent(moisture, i, c[1], c[2])
  /\ UNCHANGED <<pump, moisture>>

\* ------------------------------------------------- the foreground's calls
\* The caller (a request handler, a button handler) invokes one method of
\* the controller at a time and waits for it to return.
Begin(op, label, back, sp, sec, cb) ==
  /\ pc[Foreground] = "idle"
  /\ pc' = [pc EXCEPT ![Foreground] = label]
  /\ stack' = [stack EXCEPT ![Foreground] = back]
  /\ cmd' = [op |-> op, speed |-> sp, seconds |-> sec]
  /\ result' = None
  /\ speed' = [speed EXCEPT ![Foreground] = sp]
  /\ seconds' = [seconds EXCEPT ![Foreground] = sec]
  /\ callback' = [callback EXCEPT ![Foreground] = cb]
  /\ report' = NoReport
  /\ last_start' = IF op = "get_status" /\ cmd.op = "start_pump"
                     THEN last_start ELSE <<>>
  /\ UNCHANGED <<simulate, sensors, ctrl, hw, remaining, spawned, cblog>>

call_start_pump(S) == \E s \in S : Begin("start_pump", "sp_chk", <<>>, s, 0, None)
call_stop_pump == Begin("stop_pump", "st_chk", <<>>, 0, 0, None)
call_start_timer(limit, N, S, C) ==
  /\ spawned < limit \/ timer_running
  /\ \E n \in N, s \in S, cb \in C :
       Begin("start_timer", "tm_chk", <<>>, s, n, cb)
call_stop_timer == Begin("stop_timer", "ts_chk", <<>>, 0, 0, None)
call_cleanup == Begin("cleanup", "ts_chk", <<"cl_pump">>, 0, 0, None)
call_get_status == Begin("get_status", "gs_running", <<>>, 0, 0, None)

\* ------------------------------------------- the timer_start handler
\* POST /api/timer/start: seconds and speed are the integers of the request
\* body (int() of a JSON integer is that integer).
\* Request values around the accepted ranges seconds > 0, 0 <= speed <= 100.
WebSeconds == -1..MaxSeconds
\* return jsonify({'success': False, 'error': 'Invalid values'}), 400
BadRequest == "400"

\* if seconds <= 0 or speed < 0 or speed > 100:
TimerStartNeverRejects(n, s) == FALSE
TimerStartRejects(n, s) == n <= 0 \/ s < 0 \/ s > 100

timer_start(t) ==
  /\ pc[t] = "th_chk"
  /\ UNCHANGED <<simulate, sensors, ctrl, hw, remaining, spawned, report, cblog>>
  /\ IF TimerStartRejects(seconds[t], speed[t])
       THEN Return(t, BadRequest)
       ELSE \* result = pump.start_timer(seconds, speed)
            /\ Goto(t, "tm_chk")
            /\ UNCHANGED <<speed, seconds, callback>>

call_timer_start(limit, N, S) ==
  \E n \in N, s \in S :
    /\ TimerStartRejects(n, s) \/ spawned < limit \/ timer_running
    /\ Begin("timer_start", "th_chk", <<>>, s, n, None)

\* The steps of the pump methods and of the timer thread, whatever thread
\* runs them.
Step ==
  \/ \E t \in Threads : start_pump(t)
  \/ \E t \in Threads : stop_pump(t)
  \/ \E w \in Workers : timer_worker(w)

\* -------------------------------------------------------- specifications
\* The web application (src/app.py): every command, start_timer without a
\* callback.
Next ==
  \/ call_start_pump(Speeds)
  \/ call_stop_pump
  \/ call_start_timer(MaxTimers, Seconds, Speeds, {None})
  \/ call_stop_timer
  \/ call_cleanup
  \/ call_get_status
  \/ start_timer(Foreground, MaxTimers)
  \/ stop_timer(Foreground)
  \/ cleanup(Foreground)
  \/ get_status(Foreground)
  \/ Step

Spec == Init /\ [][Next]_vars

\* The four commands of the controller.
NextCore ==
  \/ call_start_pump(CoreSpeeds)
  \/ call_stop_pump
  \/ call_start_timer(MaxTimers, Seconds, {130}, {None})
  \/ call_stop_timer
  \/ start_timer(Foreground, MaxTimers)
  \/ stop_timer(Foreground)
  \/ Step

SpecCore == Init /\ [][NextCore]_vars

\* The pump commands beside timers that run to their end.
NextPump ==
  \/ call_start_pump(CoreSpeeds)
  \/ call_stop_pump
  \/ call_start_timer(MaxTimers, Seconds, CoreSpeeds, {None})
  \/ start_timer(Foreground, MaxTimers)
  \/ Step

SpecPump == Init /\ [][NextPump]_vars

\* The timer commands, with or without a callback.
NextTimer ==
  \/ call_start_timer(MaxTimers, Seconds, {40}, Callbacks)
  \/ call_stop_timer
  \/ start_timer(Foreground, MaxTimers)
  \/ stop_timer(Foreground)
  \/ Step

SpecTimer == Init /\ [][NextTimer]_vars

\* The timer commands alone, with more threads.
NextRace ==
  \/ call_start_timer(MaxRaceTimers, Seconds, {40}, {None})
  \/ call_stop_timer
  \/ start_timer(Foreground, MaxRaceTimers)
  \/ stop_timer(Foreground)
  \/ Step

SpecRace == Init /\ [][NextRace]_vars

\* The desktop GUI (src/main.py, src/pump_control.py): one start_timer with
\* the progress callback on a fresh controller, and no further command.
NextGui ==
  \/ call_start_timer(1, SoloSeconds, Speeds, {"cb"}) /\ cmd = NoCmd
  \/ start_timer(Foreground, 1)
  \/ Step

SpecGui == Init /\ [][NextGui]_vars

\* The GUI again: start_timer on a fresh controller, then stop_timer, which
\* returns before the first time.sleep(1) of the countdown has elapsed, and
\* no further command.  The threads are scheduled as long as they can run.
StopTimerReturned == cmd.op = "stop_timer" /\ pc[Foreground] = "idle"

NextCancel ==
  \/ call_start_timer(1, SoloSeconds, Speeds, {"cb"}) /\ cmd = NoCmd
  \/ call_stop_timer /\ cmd.op = "start_timer"
  \/ start_timer(Foreground, 1)
  \/ stop_timer(Foreground)
  \/ \E t \in Threads : start_pump(t)
  \/ \E t \in Threads : stop_pump(t)
  \/ \E w \in Workers :
       /\ pc[w] = "wk_sleep" => StopTimerReturned
       /\ timer_worker(w)

SpecCancel == Init /\ [][NextCancel]_vars /\ WF_vars(NextCancel)

\* The timer routes of the web application, with any request values.
NextWeb ==
  \/ call_timer_start(MaxTimers, WebSeconds, Speeds)
  \/ call_stop_timer
  \/ timer_start(Foreground)
  \/ start_timer(Foreground, MaxTimers)
  \/ stop_timer(Foreground)
  \/ Step

SpecWeb == Init /\ [][NextWeb]_vars

\* The sensor side of the application: a reading has been stored, and its
\* percentages are asked for.
InitSensor ==
  /\ InitPump
  /\ moisture \in Readings
  /\ query = NoQuery
  /\ answer = Returned(0)

NextSensor == get_moisture_percent

SpecSensor == InitSensor /\ [][NextSensor]_vars

\* The timer commands and a manual start, the timer threads being scheduled as long as
\* they can run: a thread started by threading.Thread(...).start() is not
\* starved for ever, and time.sleep(1) returns.
Run(w) == start_pump(w) \/ stop_pump(w) \/ timer_worker(w)

NextFair ==
  \/ call_start_pump({40})
  \/ call_start_timer(MaxTimers, Seconds, {40}, {None})
  \/ call_stop_timer
  \/ start_timer(Foreground, MaxTimers)
  \/ stop_timer(Foreground)
  \/ Step

SpecFair == Init /\ [][NextFair]_vars /\ \A w \in Workers : WF_vars(Run(w))

\* ================================================================ claims
Tasks == {w \in Workers : Alive(w)}
Idle == ~is_running /\ current_speed = 0
FgReturns(label) == pc[Foreground] = label /\ pc'[Foreground] = "idle"
FgReturned(op) == pc[Foreground] = "idle" /\ cmd.op = op
TasksUntouched ==
  \A w \in Workers :
    pc'[w] = pc[w] /\ stack'[w] = stack[w] /\ remaining'[w] = remaining[w]
ZeroCalls == Cardinality({i \in DOMAIN cblog : cblog[i] = 0})
Countdown(n) == [i \in 1..(n + 1) |-> n + 1 - i]

\* C1: in every reachable state at most one background countdown task of
\* the controller is alive.
AtMostOneCountdownTask == Cardinality(Tasks) <= 1

\* C2: when a stop_timer() that found the timer active returns, the pump is
\* Idle (running = false, speed = 0) and the timer is not active.
StopTimerReturnsIdle ==
  [][FgReturns("ts_run") /\ cmd.op = "stop_timer"
       => Idle' /\ ~timer_running']_vars

\* C3: start_timer(n, s, cb) on an idle controller with no further command
\* invokes cb with exactly n, n-1, ..., 1, 0: the terminal 0 once.
CallbackSequenceExact ==
  pc[1] = "done" => cblog = Countdown(cmd.seconds)

\* C4: with no other command, the pump reports running = true and speed = s
\* at every cb(k) with k >= 1, and is not running at any cb(0).
CallbackSeesPumpState ==
  [][cblog' # cblog
       => IF cblog'[Len(cblog')] >= 1
            THEN is_running /\ current_speed = Clamp(cmd.speed)
            ELSE ~is_running]_vars

\* C5: start_timer(n, s, cb) followed by a stop_timer() that returns before
\* the first one-second wait has elapsed, and no further command: cb is
\* invoked with 0 at most once, and the controller eventually is Idle and
\* stays Idle.
CancelledTimerEndsOnce == [](ZeroCalls <= 1) /\ <>[]Idle
CancelledTimerEnded ==
  /\ FgReturned("stop_timer") /\ result = True
  /\ pc[1] = "done" /\ ZeroCalls = 1 /\ Idle

\* C6: start_timer called while a timer is active returns False and changes
\* nothing: the controller's attributes (timer_running, timer_remaining,
\* timer_speed, timer_stop_flag, update_callback, the pump state), the
\* backend outputs and the countdown task are as before, no thread starts.
StartTimerWhileActiveFails ==
  [][pc[Foreground] = "tm_chk" /\ timer_running /\ pc'[Foreground] # "tm_chk"
       => /\ pc'[Foreground] = "idle" /\ result' = False
          /\ UNCHANGED <<ctrl, hw, spawned, cblog>>
          /\ TasksUntouched]_vars
StartTimerWasRefused ==
  /\ FgReturned("start_timer") /\ result = False
  /\ timer_running /\ Tasks # {} /\ update_callback # None

\* C7: start(speed) on a running pump returns False and leaves is_running,
\* current_speed and the backend outputs as they were.
StartWhileRunningFails ==
  [][pc[Foreground] = "sp_chk" /\ is_running /\ pc'[Foreground] # "sp_chk"
       => /\ pc'[Foreground] = "idle" /\ result' = False
          /\ UNCHANGED <<is_running, current_speed, hw>>]_vars
StartWasRefused ==
  /\ FgReturned("start_pump") /\ result = False
  /\ is_running /\ current_speed = 40 /\ cmd.speed = 130 /\ ~simulate

\* C8: stop() on an idle pump returns False and leaves is_running,
\* current_speed, the timer state and the backend outputs as they were.
StopWhileIdleFails ==
  [][pc[Foreground] = "st_chk" /\ cmd.op = "stop_pump" /\ ~is_running
        /\ pc'[Foreground] # "st_chk"
       => /\ pc'[Foreground] = "idle" /\ result' = False
          /\ UNCHANGED <<ctrl, hw>>
          /\ TasksUntouched]_vars
StopWasRefused ==
  /\ FgReturned("stop_pump") /\ result = False
  /\ ~is_running /\ timer_running /\ Tasks # {}

\* C9: stop_timer() when no timer is active returns False and changes
\* nothing: timer_stop_flag is not set, the pump is not stopped, the timer
\* state is as before.
StopTimerWhileInactiveFails ==
  [][pc[Foreground] = "ts_chk" /\ cmd.op = "stop_timer" /\ ~timer_running
        /\ pc'[Foreground] # "ts_chk"
       => /\ pc'[Foreground] = "idle" /\ result' = False
          /\ UNCHANGED <<ctrl, hw>>
          /\ TasksUntouched]_vars
StopTimerWasRefused ==
  /\ FgReturned("stop_timer") /\ result = False
  /\ is_running /\ current_speed = 40 /\ ~timer_stop_flag /\ Tasks = {}

\* C10: a start(speed) that succeeds, followed by status() with no
\* foreground command in between, reports running = true and
\* speed = min(100, max(0, speed)).
StartThenStatus ==
  FgReturned("get_status") /\ last_start # <<>>
    => report.pump_running = TRUE /\ report.pump_speed = Clamp(last_start[1])

\* C11: in every state a reader can observe (another thread, a status
\* query), running = false implies speed = 0 and running = true implies
\* 0 <= speed <= 100, whatever integer speed start or start_timer received.
\* The foreground is the reader here: it is between two commands or inside
\* a status query, and the timer thread is the writer.
PumpStateInvariant ==
  pc[Foreground] \in {"idle"} \cup StatusLabels
    => /\ ~is_running => current_speed = 0
       /\ is_running => current_speed \in 0..100

\* C12: in every reachable state, timer active = false implies
\* remaining_seconds = 0, also right after stop_timer() has returned (the
\* foreground is back from its command) and before the thread has unwound.
TimerStateInvariant ==
  pc[Foreground] = "idle" => (~timer_running => timer_remaining = 0)

\* C13: a start_timer(n, s2) that succeeds while the pump runs manually at
\* s1 # s2 makes the pump run at s2 (reported speed and duty cycle) for the
\* duration of the timer.  Stated for a timer with no command after it;
\* the pump can only be running before it by a manual start.
CountdownLabels == {"wk_for", "wk_rem", "wk_cbchk", "wk_cb", "wk_sleep"}
TimerOverridesManualSpeed ==
  /\ FgReturned("start_timer") /\ result = True
  /\ \E w \in Workers : pc[w] \in CountdownLabels
  => /\ is_running /\ current_speed = Clamp(cmd.speed)
     /\ ~simulate => duty = Clamp(cmd.speed)

\* C14: when start_timer returns success the pump is already running at the
\* clamped target speed, so an active timer is never seen with an idle pump
\* after the return.
StartTimerReturnsRunning ==
  [][FgReturns("tm_spawn")
       => is_running' /\ current_speed' = Clamp(cmd.speed)]_vars

\* C15: from any reachable state, every call of cleanup(), the first or a
\* repeated one, raises nothing and leaves the controller Idle
\* (running = false, speed = 0) with the timer not active when it returns.
CleanupLeavesIdle ==
  [][pc[Foreground] # "idle" /\ pc'[Foreground] = "idle" /\ cmd.op = "cleanup"
       => Idle' /\ ~timer_running' /\ result' = None]_vars

\* C16: a direct stop() while a timer is active stops the pump only: no
\* step of it changes timer_running, timer_remaining, timer_speed,
\* timer_stop_flag or the countdown task, and the task keeps counting: it
\* leaves its loop before the last tick only when the cancel flag is set,
\* which stop() never does.
StopLeavesTimerAlone ==
  [][/\ cmd.op = "stop_pump" /\ pc[Foreground] \in StopPumpLabels
          /\ pc'[Foreground] # pc[Foreground]
        => /\ UNCHANGED <<timer_running, timer_remaining, timer_speed,
                          timer_stop_flag, update_callback, spawned>>
           /\ TasksUntouched
     /\ \A w \in Workers :
          pc[w] = "wk_for" /\ pc'[w] # "wk_for" /\ remaining[w] > RangeStop
            => pc'[w] = "wk_rem" \/ timer_stop_flag]_vars
StopDuringTimer ==
  /\ FgReturned("stop_pump") /\ result = True
  /\ ~is_running /\ timer_running /\ ~timer_stop_flag
  /\ \E w \in Workers : pc[w] = "wk_sleep" /\ remaining[w] = 0

\* C17: on natural completion of start_timer(n, s, cb) the thread performs
\* exactly n one-second waits between starting the pump and its terminal
\* stop_pump(): one per tick n, ..., 1.
\* The time.sleep(1) calls thread w has completed since the last
\* start_timer: each one is followed by the next value of the range.
Waits(w) == cmd.seconds - remaining[w]
ExactlyNWaits ==
  \A w \in Workers :
    pc[w] = "st_chk" /\ stack[w] = <<"wk_run">> /\ ~timer_stop_flag
      => Waits(w) = cmd.seconds

\* C18: after a successful stop_timer() has set the cancel flag, the thread
\* of that timer completes at most one further wait and then exits,
\* whatever commands follow, a new start_timer included: at every loop test
\* it makes after the cancellation it leaves the loop.
\* The first thread has been cancelled: it is in its loop, so it has not
\* cleared timer_running itself, and a later start_timer has passed its
\* check, which only a successful stop_timer before it allows.
FirstCancelled == spawned >= 2 /\ pc[1] \in CountdownLabels
CancelledTaskExits ==
  [][FirstCancelled /\ pc[1] = "wk_for" /\ pc'[1] # "wk_for"
       => pc'[1] = "st_chk"]_vars

\* C19: when the timer threads are scheduled fairly, every countdown task
\* started by start_timer terminates, whatever commands are issued (a run
\* starts finitely many threads, so eventually none is alive any more);
\* and when a successful start_timer is the last command, the controller
\* eventually is, and stays, at running = false, speed = 0, timer not
\* active, remaining_seconds = 0.
Quiescent ==
  ~is_running /\ current_speed = 0 /\ ~timer_running /\ timer_remaining = 0
TimersTerminate ==
  /\ <>[](Tasks = {})
  /\ <>[](FgReturned("start_timer") /\ result = True) => <>[]Quiescent
TimerRanOut ==
  /\ FgReturned("start_timer") /\ result = True
  /\ \A w \in Workers : pc[w] \in {"unborn", "done"}
  /\ Quiescent /\ ~simulate /\ ~en /\ duty = 0

\* C20: the timer's target_speed reported by status() always lies in
\* 0..100, also after start_timer has been called directly with a speed
\* outside 0..100.
ReportedTimerSpeedInRange ==
  FgReturned("get_status") => report.timer_speed \in 0..100

\* C21: a timer_start command with seconds <= 0, speed < 0 or speed > 100
\* is rejected at the boundary: start_timer is not called, no thread is
\* started, and the pump state, the timer state, the backend outputs and
\* the countdown task are as before.
InvalidTimerStartRejected ==
  [][pc[Foreground] = "th_chk" /\ pc'[Foreground] # "th_chk"
        /\ (cmd.seconds <= 0 \/ cmd.speed < 0 \/ cmd.speed > 100)
       => /\ pc'[Foreground] = "idle" /\ result' = BadRequest
          /\ UNCHANGED <<ctrl, hw, spawned, cblog>>
          /\ TasksUntouched]_vars
TimerStartWasRejected ==
  /\ FgReturned("timer_start") /\ result = BadRequest
  /\ cmd.seconds = 1 /\ cmd.speed = 130
  /\ timer_running /\ Tasks # {} /\ timer_speed = 40

\* C22: for every stored raw value in 0..1023, every channel 0..3 and
\* bounds with dry # wet, moisture_percent returns
\* clamp(round((dry - raw) * 100 / (dry - wet)), 0, 100), rounded to the
\* nearest integer: raw = 700 gives 52 with the default bounds.
RoundPercent(a, b) ==
  LET n == IF b < 0 THEN -a ELSE a
      d == Abs(b)
  IN  (2 * 100 * n + d) \div (2 * d)
MoistureIsRounded ==
  query.asked /\ query.sensor_index \in 0..3 /\ query.dry # query.wet
    => answer = Returned(Clamp(RoundPercent(
                  query.dry - moisture[query.sensor_index + 1],
                  query.dry - query.wet)))

\* C23: moisture_percent with dry = wet fails with an error for every raw
\* value and every channel, never returns a percentage, and leaves the
\* stored readings unchanged.
EqualBoundsFail ==
  [][query'.asked /\ query'.dry = query'.wet
       => answer'.raises # None /\ moisture' = moisture]_vars
EqualBoundsFailed ==
  /\ query.asked /\ query.dry = query.wet /\ query.sensor_index = 2
  /\ moisture[3] = query.dry
  /\ answer = Raised("ZeroDivisionError")

\* C24: moisture_percent with an integer channel index outside 0..3,
\* negative ones included, fails with an error and never returns the
\* percentage of some channel.
BadIndexFails ==
  query.asked /\ query.sensor_index \notin 0..3 => answer.raises # None

\* C25: each transition of the pump from Running to Idle performs the
\* backend stop writes (duty cycle 0, then disable) exactly once, and a
\* stop() against an already idle pump performs none, also when the
\* foreground's stop or stop_timer and the thread's terminal stop_pump
\* overlap: a stop write is only made while the pump is still running.
StopWritesOnce ==
  [][\A t \in Threads :
       pc[t] \in {"st_duty", "st_en"} /\ pc'[t] # pc[t] => is_running]_vars

\* C26: once stop_timer() has returned, the thread of the cancelled timer
\* no longer changes state that belongs to later commands: a pump started
\* by start(s) after it stays running at s until the foreground stops it.
\* The cancel flag is still set, so stop_timer has cancelled a timer and no
\* timer was started since; start is the last command.
CancelledTaskLeavesPump ==
  FgReturned("start_pump") /\ result = True /\ timer_stop_flag
    => is_running /\ current_speed = Clamp(cmd.speed)

\* C27: at every step of every interleaving of foreground and background
\* start and stop, the duty-cycle output is non-zero only while the enable
\* lines are asserted.
DutyOnlyWhileEnabled == duty # 0 => en

\* C28: whenever no start or stop operation is in progress on any thread,
\* the backend outputs agree with the pump state: the enable lines are
\* asserted exactly when running = true, and the duty cycle equals the
\* reported speed.  (A simulated backend has no outputs.)
OutputsAgreeAtRest ==
  /\ ~simulate
  /\ \A t \in Threads : pc[t] \notin StartPumpLabels \cup StopPumpLabels
  => (en <=> is_running) /\ duty = current_speed

\* C29: while a timer stays active, the remaining_seconds readers see never
\* increases: it is written by one countdown task only, in decreasing
\* order.  The steps of start_timer itself, which sets the first value,
\* are left aside.
RemainingNeverIncreases ==
  [][timer_running /\ timer_running' /\ pc[Foreground] \notin StartTimerLabels
       => timer_remaining' <= timer_remaining]_vars

====
